---- MODULE Spec2Model ----
(***************************************************************************)
(* Model of the two maintainer utilities under support/:                   *)
(*   push-commits.py  pushes master and closes the ReviewBoard reviews     *)
(*   jsonurl.py       fetches JSON from a URL and walks a chain of keys    *)
(* Text is modelled as sequences of one-character strings so that the      *)
(* string methods and the regular expression of the source are computed,   *)
(* not assumed.                                                            *)
(***************************************************************************)
EXTENDS Integers, Sequences, FiniteSets, TLC

\* ------------------------------------------------------------------ bounds
\* Longest chain of local commits ahead of the merge-base.
MaxCommits == 3
\* Longest chain of KEY arguments given to jsonurl.py.
MaxKeys == 2

\* ------------------------------------------------- Python string methods
WHITESPACE == {" ", "\n", "\t"}
DIGITS == {"0", "1", "2", "3", "4", "5", "6", "7", "8", "9"}

MinOf(S) == CHOOSE x \in S : \A y \in S : x <= y
MaxOf(S) == CHOOSE x \in S : \A y \in S : y <= x

RECURSIVE LStrip(_, _)
LStrip(s, chars) ==
    IF s # <<>> /\ Head(s) \in chars THEN LStrip(Tail(s), chars) ELSE s

RECURSIVE RStrip(_, _)
RStrip(s, chars) ==
    IF s # <<>> /\ s[Len(s)] \in chars
    THEN RStrip(SubSeq(s, 1, Len(s) - 1), chars)
    ELSE s

\* str.strip(chars): both ends.
StripChars(s, chars) == RStrip(LStrip(s, chars), chars)

\* str.strip(): whitespace at both ends.
Strip(s) == StripChars(s, WHITESPACE)

StartsAt(s, sub, p) ==
    /\ p + Len(sub) - 1 <= Len(s)
    /\ \A i \in 1..Len(sub) : s[p + i - 1] = sub[i]

\* str.find(sub): 0-based index of the first occurrence, -1 when absent.
Find(s, sub) ==
    LET hits == {p \in 1..Len(s) : StartsAt(s, sub, p)}
    IN IF hits = {} THEN -1 ELSE MinOf(hits) - 1

\* str.replace(old, '', 1): the first occurrence removed, wherever it is.
ReplaceFirst(s, old) ==
    LET pos == Find(s, old)
    IN IF pos = -1
       THEN s
       ELSE SubSeq(s, 1, pos) \o SubSeq(s, pos + Len(old) + 1, Len(s))

\* str.split(sep) for a one-character separator; ''.split(sep) is [''].
RECURSIVE Split(_, _)
Split(s, sep) ==
    LET hits == {p \in 1..Len(s) : s[p] = sep}
    IN IF hits = {}
       THEN <<s>>
       ELSE LET p == MinOf(hits)
            IN <<SubSeq(s, 1, p - 1)>> \o Split(SubSeq(s, p + 1, Len(s)), sep)

\* os.path.join(a, b) for a relative b and an a that does not end in '/'.
PathJoin(a, b) == a \o <<"/">> \o b

\* os.path.basename(p): what follows the last '/'.
Basename(p) ==
    LET hits == {i \in 1..Len(p) : p[i] = "/"}
    IN IF hits = {} THEN p ELSE SubSeq(p, MaxOf(hits) + 1, Len(p))

\* --------------------------------------------------- constants of the tool
REVIEWBOARD_URL ==
    <<"h", "t", "t", "p", "s", ":", "/", "/", "r", "e", "v", "i", "e", "w", "s",
      ".", "a", "p", "a", "c", "h", "e", ".", "o", "r", "g">>

MARKER == <<"R", "e", "v", "i", "e", "w", ":", " ">>

REFS_HEADS == <<"r", "e", "f", "s", "/", "h", "e", "a", "d", "s", "/">>

MASTER == <<"m", "a", "s", "t", "e", "r">>

DOTDOT == <<".", ".">>

\* os.path.join(REVIEWBOARD_URL, 'r', '[0-9]+'); the digit class is one item.
UrlPattern == PathJoin(PathJoin(REVIEWBOARD_URL, <<"r">>), <<"[0-9]+">>)

\* The part of 'Review: (' + UrlPattern + ')$' before the digit class.
PatternLiteral == MARKER \o SubSeq(UrlPattern, 1, Len(UrlPattern) - 1)

\* One pattern character against one subject character: '.' is the regular
\* expression wildcard (anything but a newline), every other one is literal.
RegexCharMatches(p, c) == IF p = "." THEN c # "\n" ELSE c = p

\* '$' without re.MULTILINE: the end of the string, or just before a newline
\* that ends the string.
AtDollar(s, e) == \/ e = Len(s)
                  \/ e = Len(s) - 1 /\ s[Len(s)] = "\n"

\* The pattern matches s from position p with the digits ending at e.
MatchesFrom(s, p, e) ==
    LET d == p + Len(PatternLiteral)
    IN /\ d <= e
       /\ e <= Len(s)
       /\ \A i \in 1..Len(PatternLiteral) :
              RegexCharMatches(PatternLiteral[i], s[p + i - 1])
       /\ \A i \in d..e : s[i] \in DIGITS
       /\ AtDollar(s, e)

\* pattern.search(s): found, and group(1), the URL.
PatternSearch(s) ==
    LET ms == {m \in (1..Len(s)) \X (1..Len(s)) : MatchesFrom(s, m[1], m[2])}
    IN IF ms = {}
       THEN [found |-> FALSE, group1 |-> <<>>]
       ELSE LET m == CHOOSE x \in ms : \A y \in ms : x[1] <= y[1]
            IN [found |-> TRUE,
                group1 |-> SubSeq(s, m[1] + Len(MARKER), m[2])]

\* ------------------------------------------------ the git working copy
\* Commit logs a commit of the range can have (the text 'git show' prints).
LogIds == {"plain", "ok", "slash", "newline", "otherhost", "nodigits"}

REVIEW_URL_R == MARKER \o REVIEWBOARD_URL \o <<"/", "r", "/">>

LogText(id) ==
    CASE id = "plain" -> <<"F", "i", "x">>
      [] id = "ok" -> <<"F", "i", "x", "\n">> \o REVIEW_URL_R \o <<"1">>
      [] id = "slash" -> REVIEW_URL_R \o <<"2", "5", "/">>
      [] id = "newline" -> REVIEW_URL_R \o <<"4", "\n", "/">>
      [] id = "otherhost" ->
            MARKER \o <<"h", "t", "t", "p", "s", ":", "/", "/", "r", "e", "v",
                        "i", "e", "w", "s", "-", "a", "p", "a", "c", "h", "e",
                        ".", "o", "r", "g", "/", "r", "/", "3">>
      [] id = "nodigits" -> REVIEW_URL_R \o <<"x", "7">>

HexDigit(i) == <<"0", "1", "2", "3", "4", "5", "6", "7", "8", "9">>[i + 1]

\* Object name of the i-th commit of the chain; commit 0 is the merge-base.
Sha(i) == <<"c", HexDigit(i)>>

REFS_HEADS_MASTER == REFS_HEADS \o MASTER
REFS_HEADS_DEV == REFS_HEADS \o <<"d", "e", "v">>
ORIGIN == <<"o", "r", "i", "g", "i", "n">>
ORIGIN_MASTER == ORIGIN \o <<"/">> \o MASTER

\* What HEAD can be: a branch, or detached (the empty text).
HeadRefs == {REFS_HEADS_MASTER, REFS_HEADS_DEV, <<>>}

Histories == UNION {[1..n -> LogIds] : n \in 0..MaxCommits}

\* Exit statuses an external command can end with, whatever it was asked.
Statuses == {0, 1}

VARIABLES
    dry_run, head_ref, commits,
    pc, current_branch_ref, remote_tracking_branch, merge_base,
    rev_list, rev_idx, reviews, remote, close_idx,
    cmds, out, exit_status,
    argv, body, data, arg_idx, jpc, jout, jerr, jexit, lookups

pushInputs == <<dry_run, head_ref, commits>>
pushLocals == <<current_branch_ref, remote_tracking_branch, merge_base,
                rev_list, rev_idx, reviews, remote, close_idx>>
pushVars == <<pushInputs, pc, pushLocals, cmds, out, exit_status>>
jsonVars == <<argv, body, data, arg_idx, jpc, jout, jerr, jexit, lookups>>
vars == <<pushVars, jsonVars>>

\* The commit a revision names in this working copy: its index, -1 if none.
Resolve(rev) ==
    LET hits == {k \in 0..Len(commits) : Sha(k) = rev}
    IN IF hits # {} THEN MinOf(hits)
       ELSE IF rev # <<>> /\ rev = head_ref THEN Len(commits)
       ELSE -1

RECURSIVE ShaLines(_, _)
ShaLines(from, to) ==
    IF from > to THEN <<>> ELSE Sha(from) \o <<"\n">> \o ShaLines(from + 1, to)

\* 'git rev-list --reverse A..B': the commits after A up to B, oldest first,
\* one object name per line.
RevListOutput(range) ==
    LET pos == Find(range, DOTDOT)
        a == Resolve(SubSeq(range, 1, pos))
        b == Resolve(SubSeq(range, pos + Len(DOTDOT) + 1, Len(range)))
    IN [ok |-> a # -1 /\ b # -1, text |-> ShaLines(a + 1, b)]

\* 'git show --no-patch rev': the commit's log, newline-terminated.
ShowOutput(rev) ==
    LET k == Resolve(rev)
    IN [ok |-> k >= 1, text |-> IF k >= 1 THEN LogText(commits[k]) \o <<"\n">> ELSE <<>>]

\* A command git cannot carry out exits 128; one it can may still fail.
Outcomes(ok) == IF ok THEN Statuses ELSE {128}

\* ------------------------------------------------------- push-commits.py
\* One external command as the tool issued it, with the status it ended with.
Cmd(name, dry, arg, desc, status) ==
    [name |-> name, dry |-> dry, arg |-> arg, desc |-> desc, status |-> status]

\* One line printed to standard output.
Line(text, arg) == [text |-> text, arg |-> arg]

\* A faulty variant: the exit status of a checked command is dropped, as call() does.
RaisesNever(status) == FALSE

\* check_output raises CalledProcessError on a non-zero exit status.
Raises(status) == status # 0

\* A faulty variant: the branch check lets every branch through.
IsMasterAny(current_branch) == TRUE

\* if current_branch != 'master'
IsMaster(current_branch) == current_branch = MASTER

\* if merge_base == current_branch_ref
NothingToPush(mb, branch_ref) == mb = branch_ref

\* A faulty variant: the push is issued without --dry-run whatever the option.
PushCommandReal(options_dry_run, rem, status) ==
    Cmd("git push", FALSE, rem, <<>>, status)

\* The push command main issues: with --dry-run under the dry-run option.
PushCommand(options_dry_run, rem, status) ==
    IF options_dry_run
    THEN Cmd("git push", TRUE, rem, <<>>, status)
    ELSE Cmd("git push", FALSE, rem, <<>>, status)

\* A faulty variant: the list is walked from its last record.
ReviewAtReversed(revs, i) == revs[Len(revs) - i + 1]

\* A faulty variant: every turn of the loop takes the first record.
ReviewAtFirst(revs, i) == revs[1]

\* close_reviews walks the list from its first record.
ReviewAt(revs, i) == revs[i]

\* if not options['dry_run']: the close is issued only outside a dry run.
IssuesClose(options_dry_run) == ~options_dry_run

\* The marker test of get_reviews: commit_log.find('Review: ') != -1.
HasMarker(commit_log) == Find(commit_log, MARKER) # -1

\* The search get_reviews runs on a marked log.
ReviewMatch(commit_log) == PatternSearch(StripChars(Strip(commit_log), {"/"}))

\* A faulty variant: the whole URL is kept as the id, os.path.basename forgotten.
ReviewRecordUrl(commit_log) ==
    <<PatternSearch(StripChars(Strip(commit_log), {"/"})).group1, commit_log>>

\* The record get_reviews appends for a marked, matching log.
ReviewRecord(commit_log) ==
    <<Basename(ReviewMatch(commit_log).group1), commit_log>>

\* An uncaught exception or sys.exit(1): the run is over with status 1.
Abort ==
    /\ pc' = "done"
    /\ exit_status' = 1

InitPushVars ==
    /\ dry_run \in BOOLEAN
    /\ head_ref \in HeadRefs
    /\ commits \in Histories
    /\ pc = "check_python3"
    /\ current_branch_ref = <<>>
    /\ remote_tracking_branch = <<>>
    /\ merge_base = <<>>
    /\ rev_list = <<>>
    /\ rev_idx = 0
    /\ reviews = <<>>
    /\ remote = <<>>
    /\ close_idx = 0
    /\ cmds = <<>>
    /\ out = <<>>
    /\ exit_status = -1

\* main: parse_options, then the interpreter check, whose status is dropped.
CheckPython3 ==
    /\ pc = "check_python3"
    /\ \E st \in Statuses :
          cmds' = Append(cmds, Cmd("python check-python3.py", FALSE, <<>>, <<>>, st))
    /\ pc' = "symbolic_ref"
    /\ UNCHANGED <<pushInputs, pushLocals, out, exit_status, jsonVars>>

\* main: git symbolic-ref HEAD, and the branch check.
SymbolicRef ==
    /\ pc = "symbolic_ref"
    /\ \E st \in Outcomes(head_ref # <<>>) :
          /\ cmds' = Append(cmds, Cmd("git symbolic-ref", FALSE, <<>>, <<>>, st))
          /\ IF Raises(st)
             THEN Abort /\ UNCHANGED <<current_branch_ref, out>>
             ELSE LET ref == Strip(head_ref \o <<"\n">>)
                      current_branch == ReplaceFirst(ref, REFS_HEADS)
                  IN /\ current_branch_ref' = ref
                     /\ IF ~IsMaster(current_branch)
                        THEN /\ out' = Append(out,
                                   Line("Please run this script from master branch", <<>>))
                             /\ Abort
                        ELSE /\ pc' = "rev_parse"
                             /\ UNCHANGED <<out, exit_status>>
    /\ UNCHANGED <<pushInputs, remote_tracking_branch, merge_base, rev_list,
                   rev_idx, reviews, remote, close_idx, jsonVars>>

\* main: git rev-parse --abbrev-ref master@{upstream}.
RevParse ==
    /\ pc = "rev_parse"
    /\ \E st \in Statuses :
          /\ cmds' = Append(cmds, Cmd("git rev-parse", FALSE, <<>>, <<>>, st))
          /\ IF Raises(st)
             THEN Abort /\ UNCHANGED remote_tracking_branch
             ELSE /\ remote_tracking_branch' = Strip(ORIGIN_MASTER \o <<"\n">>)
                  /\ pc' = "merge_base"
                  /\ UNCHANGED exit_status
    /\ UNCHANGED <<pushInputs, current_branch_ref, merge_base, rev_list,
                   rev_idx, reviews, remote, close_idx, out, jsonVars>>

\* main: git merge-base <upstream> master, and the nothing-to-push check.
MergeBase ==
    /\ pc = "merge_base"
    /\ \E st \in Statuses :
          /\ cmds' = Append(cmds,
                 Cmd("git merge-base", FALSE, remote_tracking_branch, <<>>, st))
          /\ IF Raises(st)
             THEN Abort /\ UNCHANGED <<merge_base, out>>
             ELSE LET mb == Strip(Sha(0) \o <<"\n">>)
                  IN /\ merge_base' = mb
                     /\ IF NothingToPush(mb, current_branch_ref)
                        THEN /\ out' = Append(out,
                                   Line("No new commits found to push", <<>>))
                             /\ Abort
                        ELSE /\ pc' = "rev_list"
                             /\ UNCHANGED <<out, exit_status>>
    /\ UNCHANGED <<pushInputs, current_branch_ref, remote_tracking_branch,
                   rev_list, rev_idx, reviews, remote, close_idx, jsonVars>>

\* get_reviews: git rev-list --reverse <merge_base>..<current_branch_ref>.
RevList ==
    /\ pc = "rev_list"
    /\ LET range == merge_base \o DOTDOT \o current_branch_ref
           res == RevListOutput(range)
       IN \E st \in Outcomes(res.ok) :
             /\ cmds' = Append(cmds, Cmd("git rev-list", FALSE, range, <<>>, st))
             /\ IF Raises(st)
                THEN Abort /\ UNCHANGED <<rev_list, rev_idx, reviews>>
                ELSE /\ rev_list' = Split(Strip(res.text), "\n")
                     /\ rev_idx' = 1
                     /\ reviews' = <<>>
                     /\ pc' = "show"
                     /\ UNCHANGED exit_status
    /\ UNCHANGED <<pushInputs, current_branch_ref, remote_tracking_branch,
                   merge_base, remote, close_idx, out, jsonVars>>

\* get_reviews: one turn of the loop over rev_list; after the last revision
\* the list is returned to main.
Show ==
    /\ pc = "show"
    /\ LET rev == rev_list[rev_idx]
           res == ShowOutput(rev)
           last == rev_idx = Len(rev_list)
       IN \E st \in Outcomes(res.ok) :
             /\ cmds' = Append(cmds, Cmd("git show", FALSE, rev, <<>>, st))
             /\ IF Raises(st)
                THEN Abort /\ UNCHANGED <<rev_idx, reviews, out>>
                ELSE LET commit_log == Strip(res.text)
                     IN IF HasMarker(commit_log) /\ ~ReviewMatch(commit_log).found
                        THEN /\ out' = Append(out,
                                   Line("Invalid ReviewBoard URL",
                                        SubSeq(commit_log,
                                               Find(commit_log, MARKER) + 1,
                                               Len(commit_log))))
                             /\ Abort
                             /\ UNCHANGED <<rev_idx, reviews>>
                        ELSE /\ reviews' = IF HasMarker(commit_log)
                                           THEN Append(reviews, ReviewRecord(commit_log))
                                           ELSE reviews
                             /\ rev_idx' = rev_idx + 1
                             /\ pc' = IF last THEN "config" ELSE "show"
                             /\ UNCHANGED <<out, exit_status>>
    /\ UNCHANGED <<pushInputs, current_branch_ref, remote_tracking_branch,
                   merge_base, rev_list, remote, close_idx, jsonVars>>

\* main: git config --get branch.master.remote.
Config ==
    /\ pc = "config"
    /\ \E st \in Statuses :
          /\ cmds' = Append(cmds, Cmd("git config", FALSE, <<>>, <<>>, st))
          /\ IF Raises(st)
             THEN Abort /\ UNCHANGED <<remote, out>>
             ELSE LET rem == Strip(ORIGIN \o <<"\n">>)
                  IN /\ remote' = rem
                     /\ out' = Append(out, Line("Pushing commits to", rem))
                     /\ pc' = "push"
                     /\ UNCHANGED exit_status
    /\ UNCHANGED <<pushInputs, current_branch_ref, remote_tracking_branch,
                   merge_base, rev_list, rev_idx, reviews, close_idx, jsonVars>>

\* main: the push; with no review to close the run ends here with status 0.
Push ==
    /\ pc = "push"
    /\ \E st \in Statuses :
          /\ cmds' = Append(cmds, PushCommand(dry_run, remote, st))
          /\ IF Raises(st)
             THEN Abort /\ UNCHANGED close_idx
             ELSE /\ close_idx' = 1
                  /\ IF reviews = <<>>
                     THEN pc' = "done" /\ exit_status' = 0
                     ELSE pc' = "close" /\ UNCHANGED exit_status
    /\ UNCHANGED <<pushInputs, current_branch_ref, remote_tracking_branch,
                   merge_base, rev_list, rev_idx, reviews, remote, out, jsonVars>>

\* close_reviews: one turn of the loop; after the last record main returns.
Close ==
    /\ pc = "close"
    /\ LET review == ReviewAt(reviews, close_idx)
           review_id == review[1]
           commit_log == review[2]
           last == close_idx = Len(reviews)
           Advance == /\ close_idx' = close_idx + 1
                      /\ IF last
                         THEN pc' = "done" /\ exit_status' = 0
                         ELSE pc' = "close" /\ UNCHANGED exit_status
       IN /\ out' = Append(out, Line("Closing review", review_id))
          /\ IF IssuesClose(dry_run)
             THEN \E st \in Statuses :
                     /\ cmds' = Append(cmds,
                            Cmd("rbt close", FALSE, review_id, commit_log, st))
                     /\ IF Raises(st)
                        THEN Abort /\ UNCHANGED close_idx
                        ELSE Advance
             ELSE Advance /\ UNCHANGED cmds
    /\ UNCHANGED <<pushInputs, current_branch_ref, remote_tracking_branch,
                   merge_base, rev_list, rev_idx, reviews, remote, jsonVars>>

NextPush ==
    \/ CheckPython3
    \/ SymbolicRef
    \/ RevParse
    \/ MergeBase
    \/ RevList
    \/ Show
    \/ Config
    \/ Push
    \/ Close

\* ------------------------------------------------------------ jsonurl.py
\* A parsed JSON value, as json.loads builds it: dict, list, unicode, number,
\* bool or None. A string is its sequence of code points.
NoMembers == [k \in {} |-> 0]
JObject(m) == [kind |-> "object", members |-> m, items |-> <<>>, str |-> <<>>, num |-> 0]
JArray(xs) == [kind |-> "array", members |-> NoMembers, items |-> xs, str |-> <<>>, num |-> 0]
JString(cs) == [kind |-> "string", members |-> NoMembers, items |-> <<>>, str |-> cs, num |-> 0]
JNumber(n) == [kind |-> "number", members |-> NoMembers, items |-> <<>>, str |-> <<>>, num |-> n]
JBool(b) == [kind |-> "boolean", members |-> NoMembers, items |-> <<>>, str |-> <<>>,
             num |-> IF b THEN 1 ELSE 0]
JNull == [kind |-> "null", members |-> NoMembers, items |-> <<>>, str |-> <<>>, num |-> 0]

\* "hi" and "h" followed by U+00E9, as code points.
TextHi == <<104, 105>>
TextHe == <<104, 233>>

\* {"a": {"b": 42, "s": "hé"}, "l": ["hi"], "s": "hi", "n": null, "t": true}
DocObject ==
    JObject([k \in {"a", "l", "s", "n", "t"} |->
        CASE k = "a" -> JObject([j \in {"b", "s"} |->
                            IF j = "b" THEN JNumber(42) ELSE JString(TextHe)])
          [] k = "l" -> JArray(<<JString(TextHi)>>)
          [] k = "s" -> JString(TextHi)
          [] k = "n" -> JNull
          [] k = "t" -> JBool(TRUE)])

Docs == {DocObject, JString(TextHi), JArray(<<JNumber(1)>>)}

\* The response body: JSON text that parses to a value, or text that does not.
Bodies == {[valid |-> TRUE, value |-> d] : d \in Docs}
          \cup {[valid |-> FALSE, value |-> JNull]}

Keys == {"a", "b", "s", "l", "c"}

KeyChains == UNION {[1..n -> Keys] : n \in 0..MaxKeys}

\* sys.argv: the program name, then URL and KEY... when a URL is given.
Argvs == {<<"jsonurl.py">>} \cup {<<"jsonurl.py", "URL">> \o ks : ks \in KeyChains}

\* Python's data[arg] for a str arg: a dict looks the key up and raises
\* KeyError when it is absent; every other type raises TypeError.
Subscript(d, arg) ==
    IF d.kind = "object"
    THEN IF arg \in DOMAIN d.members
         THEN [exc |-> "none", value |-> d.members[arg]]
         ELSE [exc |-> "KeyError", value |-> JNull]
    ELSE [exc |-> "TypeError", value |-> JNull]

\* except KeyError: the one exception the walk catches.
Caught(exc) == exc = "KeyError"

\* data.encode: only unicode objects have the method.
HasEncode(d) == d.kind = "string"

\* UTF-8 of one code point of the Basic Multilingual Plane.
Utf8Char(cp) ==
    IF cp < 128 THEN <<cp>>
    ELSE IF cp < 2048 THEN <<192 + (cp \div 64), 128 + (cp % 64)>>
    ELSE <<224 + (cp \div 4096), 128 + ((cp \div 64) % 64), 128 + (cp % 64)>>

\* unicode.encode("utf-8")
RECURSIVE Utf8Encode(_)
Utf8Encode(cs) ==
    IF cs = <<>> THEN <<>> ELSE Utf8Char(Head(cs)) \o Utf8Encode(Tail(cs))

\* The print statement: the bytes, then a newline.
PrintBytes(bytes) == bytes \o <<10>>

\* An uncaught exception: the traceback on stderr and exit status 1.
JCrash(exc) ==
    /\ jerr' = Append(jerr, Line("Traceback", exc))
    /\ jexit' = 1
    /\ jpc' = "done"

InitJsonVars ==
    /\ argv \in Argvs
    /\ body \in Bodies
    /\ data = JNull
    /\ arg_idx = 0
    /\ jpc = "usage"
    /\ jout = <<>>
    /\ jerr = <<>>
    /\ jexit = -1
    /\ lookups = 0

\* main: the usage check, then the interpreter check.
Usage ==
    /\ jpc = "usage"
    /\ IF Len(argv) < 2
       THEN /\ jerr' = Append(jerr, Line("USAGE: URL [KEY...]", argv[1]))
            /\ jexit' = 1
            /\ jpc' = "done"
       ELSE /\ jpc' = "load"
            /\ UNCHANGED <<jerr, jexit>>
    /\ UNCHANGED <<argv, body, data, arg_idx, jout, lookups, pushVars>>

\* main: data = json.loads(urllib2.urlopen(url).read())
Load ==
    /\ jpc = "load"
    /\ \E fetched \in BOOLEAN :
          IF ~fetched
          THEN JCrash("URLError") /\ UNCHANGED <<data, arg_idx>>
          ELSE IF ~body.valid
          THEN JCrash("ValueError") /\ UNCHANGED <<data, arg_idx>>
          ELSE /\ data' = body.value
               /\ arg_idx' = 3
               /\ jpc' = IF Len(argv) >= 3 THEN "walk" ELSE "print"
               /\ UNCHANGED <<jerr, jexit>>
    /\ UNCHANGED <<argv, body, jout, lookups, pushVars>>

\* main: one turn of the loop over sys.argv[2:].
Walk ==
    /\ jpc = "walk"
    /\ LET arg == argv[arg_idx]
           got == Subscript(data, arg)
       IN /\ lookups' = lookups + 1
          /\ IF got.exc = "none"
             THEN /\ data' = got.value
                  /\ arg_idx' = arg_idx + 1
                  /\ jpc' = IF arg_idx = Len(argv) THEN "print" ELSE "walk"
                  /\ UNCHANGED <<jerr, jexit>>
             ELSE IF Caught(got.exc)
             THEN /\ jerr' = Append(jerr, Line("was not found", arg))
                  /\ jexit' = 1
                  /\ jpc' = "done"
                  /\ UNCHANGED <<data, arg_idx>>
             ELSE JCrash(got.exc) /\ UNCHANGED <<data, arg_idx>>
    /\ UNCHANGED <<argv, body, jout, pushVars>>

\* main: print data.encode("utf-8")
PrintData ==
    /\ jpc = "print"
    /\ IF HasEncode(data)
       THEN /\ jout' = Append(jout, PrintBytes(Utf8Encode(data.str)))
            /\ jexit' = 0
            /\ jpc' = "done"
            /\ UNCHANGED jerr
       ELSE JCrash("AttributeError") /\ UNCHANGED jout
    /\ UNCHANGED <<argv, body, data, arg_idx, lookups, pushVars>>

NextJson ==
    \/ Usage
    \/ Load
    \/ Walk
    \/ PrintData

\* ------------------------------------------------------- specifications
\* jsonurl.py at rest, while push-commits.py runs.
JsonIdle ==
    /\ argv = <<"jsonurl.py">>
    /\ body = [valid |-> FALSE, value |-> JNull]
    /\ data = JNull
    /\ arg_idx = 0
    /\ jpc = "idle"
    /\ jout = <<>>
    /\ jerr = <<>>
    /\ jexit = -1
    /\ lookups = 0

\* push-commits.py at rest, while jsonurl.py runs.
PushIdle ==
    /\ dry_run = FALSE
    /\ head_ref = <<>>
    /\ commits = <<>>
    /\ pc = "idle"
    /\ current_branch_ref = <<>>
    /\ remote_tracking_branch = <<>>
    /\ merge_base = <<>>
    /\ rev_list = <<>>
    /\ rev_idx = 0
    /\ reviews = <<>>
    /\ remote = <<>>
    /\ close_idx = 0
    /\ cmds = <<>>
    /\ out = <<>>
    /\ exit_status = -1

InitPush == InitPushVars /\ JsonIdle
InitJson == InitJsonVars /\ PushIdle

\* One run of push-commits.py over every option, HEAD and commit history.
Spec == InitPush /\ [][NextPush]_vars

\* One run of jsonurl.py over every argument list and response body.
SpecJson == InitJson /\ [][NextJson]_vars

\* ------------------------------------------- what the properties speak of
IsRealPush(c) == c.name = "git push" /\ ~c.dry
IsDryPush(c) == c.name = "git push" /\ c.dry
IsPush(c) == c.name = "git push"
IsClose(c) == c.name = "rbt close"
IsDiscovery(c) == c.name \in {"git rev-list", "git show"}
IsChecked(c) == c.name # "python check-python3.py"
IsClosingLine(l) == l.text = "Closing review"

Issued(Test(_)) == \E i \in DOMAIN cmds : Test(cmds[i])
Printed(text) == \E i \in DOMAIN out : out[i].text = text

\* HEAD's symbolic ref with a leading 'refs/heads/' removed.
LeadingRemoved(ref) ==
    IF StartsAt(ref, REFS_HEADS, 1)
    THEN SubSeq(ref, Len(REFS_HEADS) + 1, Len(ref))
    ELSE ref

ContainsMarker(text) == \E p \in 1..Len(text) : StartsAt(text, MARKER, p)

EndsWith(s, suffix) ==
    Len(suffix) <= Len(s) /\ SubSeq(s, Len(s) - Len(suffix) + 1, Len(s)) = suffix

RECURSIVE TrailingDigits(_)
TrailingDigits(s) ==
    IF s # <<>> /\ s[Len(s)] \in DIGITS
    THEN TrailingDigits(SubSeq(s, 1, Len(s) - 1)) \o <<s[Len(s)]>>
    ELSE <<>>

\* The numeric last path segment of the review URL that ends the log.
NumericSuffix(text) == TrailingDigits(RStrip(text, WHITESPACE \cup {"/"}))

\* The log, whitespace and trailing '/' stripped, ends with
\* 'Review: https://reviews.apache.org/r/<digits>'.
EndsWithReviewUrl(text) ==
    LET t == RStrip(Strip(text), {"/"})
        d == TrailingDigits(t)
    IN d # <<>> /\ EndsWith(SubSeq(t, 1, Len(t) - Len(d)), REVIEW_URL_R)

Marked(k) == ContainsMarker(LogText(commits[k]))

\* One record per marked commit of the first k commits, oldest first.
RECURSIVE ExpectedUpTo(_)
ExpectedUpTo(k) ==
    IF k = 0 THEN <<>>
    ELSE IF Marked(k)
    THEN Append(ExpectedUpTo(k - 1),
                <<NumericSuffix(LogText(commits[k])), LogText(commits[k])>>)
    ELSE ExpectedUpTo(k - 1)

ExpectedReviews == ExpectedUpTo(Len(commits))

\* get_reviews has returned its list to main.
Discovered ==
    \/ pc \in {"config", "push", "close"}
    \/ \E i \in DOMAIN cmds : cmds[i].name = "git config"

ClosingLines == SelectSeq(out, IsClosingLine)
CloseCmds == SelectSeq(cmds, IsClose)
PushCmds == SelectSeq(cmds, IsPush)

\* The KEY arguments of a jsonurl.py run.
KeysOf == SubSeq(argv, 3, Len(argv))

\* The document was fetched and parsed.
Loaded ==
    /\ Len(argv) >= 2
    /\ body.valid
    /\ jpc \notin {"usage", "load"}
    /\ ~\E i \in DOMAIN jerr : jerr[i].arg \in {"URLError", "ValueError"}

\* Position of the first key of ks, from i on, that v's path does not have: the
\* node there is no object or lacks the key. 0 when every key exists.
RECURSIVE FirstMissing(_, _, _)
FirstMissing(v, ks, i) ==
    IF i > Len(ks) THEN 0
    ELSE IF v.kind = "object" /\ ks[i] \in DOMAIN v.members
    THEN FirstMissing(v.members[ks[i]], ks, i + 1)
    ELSE i

\* The value the keys of ks, from i on, lead to from v.
RECURSIVE Reached(_, _, _)
Reached(v, ks, i) ==
    IF i > Len(ks) THEN v ELSE Reached(v.members[ks[i]], ks, i + 1)

\* ------------------------------------------------------------ properties

\* C1: a run whose current branch (HEAD's symbolic ref with the leading
\* 'refs/heads/' removed) is not 'master' issues no git push of either kind
\* and no rbt close, and when it has ended its exit status is not zero.
C1_WrongBranchNoPush ==
    LeadingRemoved(head_ref) # MASTER =>
        /\ ~Issued(IsPush)
        /\ ~Issued(IsClose)
        /\ pc = "done" => exit_status > 0

\* C1 witness: a run on another branch has ended at the branch check.
C1_Witness ==
    /\ head_ref = REFS_HEADS_DEV
    /\ commits # <<>>
    /\ pc = "done"
    /\ Printed("Please run this script from master branch")
    /\ exit_status = 1

\* C2: in a dry run no git push without --dry-run and no rbt close is ever
\* issued; the closes are only the printed 'Closing review' lines.
C2_DryRunNoRealAction ==
    dry_run =>
        /\ ~Issued(IsRealPush)
        /\ ~Issued(IsClose)
        /\ Len(PushCmds) <= 1

\* C2 witness: a dry run has ended after a --dry-run push and after printing
\* the closing of two reviews.
C2_Witness ==
    /\ dry_run
    /\ pc = "done"
    /\ exit_status = 0
    /\ Issued(IsDryPush)
    /\ Len(ClosingLines) = 2

\* C3: when the merge-base is the tip of master (no local commit ahead) and
\* git merge-base has succeeded, the run has ended at that check: it printed
\* 'No new commits found to push', exited 1, and issued no rev-list, show,
\* push or close.
C3_NothingToPushStops ==
    ( /\ Sha(0) = Sha(Len(commits))
      /\ \E i \in DOMAIN cmds : cmds[i].name = "git merge-base" /\ cmds[i].status = 0 )
    => /\ pc = "done"
       /\ exit_status = 1
       /\ Printed("No new commits found to push")
       /\ ~Issued(IsDiscovery)
       /\ ~Issued(IsPush)
       /\ ~Issued(IsClose)

\* C4: when a commit of the range has the marker but its log does not end
\* with 'Review: https://reviews.apache.org/r/<digits>', get_reviews returns
\* no list, no git push and no rbt close is issued, and the exit status is 1.
C4_MalformedIsFatal ==
    (\E k \in 1..Len(commits) : Marked(k) /\ ~EndsWithReviewUrl(LogText(commits[k])))
    => /\ ~Discovered
       /\ ~Issued(IsPush)
       /\ ~Issued(IsClose)
       /\ pc = "done" => exit_status = 1

\* C5: the list get_reviews returns holds exactly one record per marked commit
\* and none for an unmarked one, in the oldest-first order of the range, each
\* with the numeric last path segment of its review URL as the id.
C5_DiscoveryExact ==
    Discovered =>
        /\ reviews = ExpectedReviews
        /\ \A i \in DOMAIN reviews :
              /\ reviews[i][1] # <<>>
              /\ \A j \in DOMAIN reviews[i][1] : reviews[i][1][j] \in DIGITS

\* C5 witness: discovery has returned for a range with an unmarked commit
\* between two marked ones, the later with a two-digit id.
C5_Witness ==
    /\ pc = "config"
    /\ commits = <<"ok", "plain", "slash">>
    /\ Len(reviews) = 2
    /\ reviews[1][1] = <<"1">>
    /\ reviews[2][1] = <<"2", "5">>

\* C6: the reviews a close was attempted on, in the order of the attempts, are
\* a prefix of the discovered list, and each rbt close carries its own
\* commit's log as the description.
C6_CloseOrderPrefix ==
    /\ Len(ClosingLines) <= Len(reviews)
    /\ \A i \in DOMAIN ClosingLines : ClosingLines[i].arg = reviews[i][1]
    /\ Len(CloseCmds) <= Len(ClosingLines)
    /\ \A i \in DOMAIN CloseCmds :
          /\ CloseCmds[i].arg = reviews[i][1]
          /\ CloseCmds[i].desc = ExpectedReviews[i][2]

\* C6 witness: two different reviews have been closed with rbt.
C6_Witness ==
    /\ Len(CloseCmds) = 2
    /\ CloseCmds[1].arg # CloseCmds[2].arg
    /\ CloseCmds[1].desc # CloseCmds[2].desc

\* C7 as stated: every external command the tool spawns that exits non-zero
\* is the last command of the run, and the run has ended with a non-zero
\* status.
C7_EveryCommandFatal ==
    \A i \in DOMAIN cmds :
        cmds[i].status # 0 =>
            /\ i = Len(cmds)
            /\ pc = "done"
            /\ exit_status > 0

\* C7 amended: every git and rbt command that exits non-zero is the last
\* command of the run and the run has ended with status 1; a failed rbt close
\* on the i-th review leaves the push and the i-1 earlier closes issued and
\* successful, and no later review is closed.
C7_CheckedCommandFatal ==
    /\ \A i \in DOMAIN cmds :
          (IsChecked(cmds[i]) /\ cmds[i].status # 0) =>
              /\ i = Len(cmds)
              /\ pc = "done"
              /\ exit_status = 1
    /\ \A i \in DOMAIN CloseCmds :
          CloseCmds[i].status # 0 =>
              /\ i = Len(CloseCmds)
              /\ Len(ClosingLines) = i
              /\ \A j \in 1..(i - 1) : CloseCmds[j].status = 0
              /\ \E j \in DOMAIN cmds : IsRealPush(cmds[j]) /\ cmds[j].status = 0

\* C7 witness: of three reviews the first was closed, rbt close failed on the
\* second, and the run ended without touching the third.
C7_Witness ==
    /\ Len(reviews) = 3
    /\ Len(CloseCmds) = 2
    /\ CloseCmds[1].status = 0
    /\ CloseCmds[2].status # 0
    /\ pc = "done"
    /\ exit_status = 1

\* C10: outside a dry run every rbt close comes after the successful real
\* push, which comes after a successful git show of every commit of the
\* range; and a run that exits 0 issued exactly one push and closed every
\* discovered record exactly once.
C10_PushPrecedesClose ==
    ~dry_run =>
        /\ \A i \in DOMAIN cmds :
              IsClose(cmds[i]) =>
                  \E j \in 1..(i - 1) :
                      /\ IsRealPush(cmds[j]) /\ cmds[j].status = 0
                      /\ Cardinality({k \in 1..(j - 1) :
                             cmds[k].name = "git show" /\ cmds[k].status = 0})
                         = Len(commits)
        /\ (pc = "done" /\ exit_status = 0) =>
              /\ Len(PushCmds) = 1
              /\ Len(CloseCmds) = Len(reviews)
              /\ \A i \in DOMAIN reviews :
                    /\ CloseCmds[i].arg = reviews[i][1]
                    /\ CloseCmds[i].desc = reviews[i][2]
                    /\ CloseCmds[i].status = 0

\* C10 witness: a real run has pushed, closed three reviews and exited 0.
C10_Witness ==
    /\ ~dry_run
    /\ pc = "done"
    /\ exit_status = 0
    /\ Len(reviews) = 3
    /\ Issued(IsRealPush)

\* C8: for a fetched, valid document and a key chain all of whose keys exist
\* along the path, the run exits 0 and standard output holds exactly the
\* value reached, whatever its kind; with no key that is the whole document.
C8_WalkPrintsValue ==
    (jpc = "done" /\ Loaded /\ FirstMissing(body.value, KeysOf, 1) = 0) =>
        /\ jexit = 0
        /\ Len(jout) = 1
        /\ LET v == Reached(body.value, KeysOf, 1)
           IN v.kind = "string" => jout[1] = PrintBytes(Utf8Encode(v.str))

\* C9: for a fetched, valid document and a key chain whose first key that
\* cannot be looked up in the current node is at position i, the run reports
\* "'<key i>' was not found" on stderr, exits 1, has made exactly i lookups
\* and has written nothing to standard output.
C9_MissingKeyReported ==
    (jpc = "done" /\ Loaded /\ FirstMissing(body.value, KeysOf, 1) > 0) =>
        LET i == FirstMissing(body.value, KeysOf, 1)
        IN /\ jerr = <<Line("was not found", KeysOf[i])>>
           /\ jexit = 1
           /\ lookups = i
           /\ jout = <<>>

====
